---- MODULE Spec2Model ----
(***************************************************************************)
(* Probes of the streaming diagnostic engine: one probe invocation racing  *)
(* its timeout timers against the server, on a single event loop.          *)
(* Every await of a probe is a suspension point at which timer callbacks   *)
(* and server events may run.                                              *)
(***************************************************************************)
EXTENDS Integers, Sequences, FiniteSets, TLC

\* ---------------------------------------------------------------- bounds
MaxTimeout == 3
MaxTime == 4
MaxEvents == 2
MaxPerChunk == 2
MaxText == 4
MaxCalls == 3
MaxClock == 2
MaxModels == 2
MaxIdLen == 2
MaxRequests == 2
MaxCallers == 3

\* ------------------------------------------------------- optional values
None == <<>>
Some(v) == <<v>>

\* ---------------------------------------------------------- probe kinds
StreamingFetchKinds == {"raw-streaming", "bench-streaming"}
NonStreamingFetchKinds == {"non-streaming", "bench-non-streaming"}
FoundryKinds == {"foundry-sdk", "foundry-sdk-streaming"}
ParseSSEKinds == StreamingFetchKinds \cup {"foundry-sdk-streaming"}
StreamingKinds == ParseSSEKinds \cup {"copilot-sdk-streaming"}
Kinds == StreamingFetchKinds \cup NonStreamingFetchKinds \cup FoundryKinds
           \cup {"copilot-sdk-streaming"}

ProbeOutcome == {"OK", "FAIL", "TIMEOUT", "NO_FIRST_BYTE", "NO_FIRST_EVENT",
                 "HANG", "ERROR"}

\* --------------------------------------------------- messages and errors
\* A text is a sequence of fragments; String.includes is containment of a
\* contiguous run of fragments.
Includes(msg, needle) ==
  \E i \in 1..(Len(msg) + 1) :
     /\ i + Len(needle) - 1 <= Len(msg)
     /\ \A j \in 1..Len(needle) : msg[i + j - 1] = needle[j]

T_FIRST_BYTE_TIMEOUT == <<"FIRST_BYTE_", "TIMEOUT">>
T_FIRST_EVENT_TIMEOUT == <<"FIRST_EVENT_", "TIMEOUT">>
T_REQUEST_TIMEOUT == <<"REQUEST_", "TIMEOUT">>
T_TIMEOUT == <<"TIMEOUT">>
T_timeout == <<"timeout">>
T_AbortError == <<"AbortError">>
T_aborted == <<"abort", "ed">>
T_abort == <<"abort">>
T_NO_FIRST_EVENT == <<"NO_FIRST_EVENT">>
T_ECONNREFUSED == <<"ECONNREFUSED">>
T_ENOTFOUND == <<"ENOTFOUND">>

\* A thrown value: an Error object carrying a message, or a bare string.
ErrorObject(text) == [isError |-> TRUE, text |-> text]
StringValue(text) == [isError |-> FALSE, text |-> text]

\* err instanceof Error ? err.message : String(err)
ErrorMessage(err) == err.text

\* new DOMException("SSE parsing aborted", "AbortError")
SSEAbortError == ErrorObject(<<"SSE parsing ", "abort", "ed">>)
\* the rejection of a failed connection / a broken body
FetchFailed == ErrorObject(<<"fetch failed">>)
Terminated == ErrorObject(<<"terminated">>)
\* JSON.parse / res.json() on a malformed body
JSONSyntaxError == ErrorObject(<<"Unexpected token">>)
\* the OpenAI client's own errors
APIUserAbortError == ErrorObject(<<"Request was ", "abort", "ed", ".">>)
APIStatusError(status) == ErrorObject(<<status, " status code (no body)">>)

\* new Error(`HTTP ${response.status}: ${response.statusText}`)
HTTPError(status) ==
  ErrorObject(<<"HTTP ", status, ": ",
                CASE status = "500" -> "Internal Server Error"
                  [] status = "504" -> "Gateway Timeout"
                  [] OTHER -> "OK">>)

\* The value an await on an aborted signal rejects with: the abort reason.
\* abort("TAG") gives the bare string; abort() and AbortSignal.timeout give
\* DOMExceptions.
ReasonValue(reason) ==
  CASE reason = "FIRST_BYTE_TIMEOUT" -> StringValue(T_FIRST_BYTE_TIMEOUT)
    [] reason = "FIRST_EVENT_TIMEOUT" -> StringValue(T_FIRST_EVENT_TIMEOUT)
    [] reason = "REQUEST_TIMEOUT" -> StringValue(T_REQUEST_TIMEOUT)
    [] reason = "TimeoutError" ->
         ErrorObject(<<"The operation was ", "abort", "ed", " due to ", "timeout">>)
    [] OTHER -> ErrorObject(<<"This operation was ", "abort", "ed">>)

\* ------------------------------------------------------------- classifiers
\* ClassifyStreaming without the FIRST_EVENT_TIMEOUT branch
ClassifyStreaming_NoFirstEvent(msg) ==
  IF Includes(msg, T_FIRST_BYTE_TIMEOUT) THEN "NO_FIRST_BYTE"
  ELSE IF Includes(msg, T_REQUEST_TIMEOUT) THEN "TIMEOUT"
  ELSE IF Includes(msg, T_AbortError) \/ Includes(msg, T_aborted) THEN "TIMEOUT"
  ELSE "ERROR"

ClassifyStreaming(msg) ==
  IF Includes(msg, T_FIRST_BYTE_TIMEOUT) THEN "NO_FIRST_BYTE"
  ELSE IF Includes(msg, T_FIRST_EVENT_TIMEOUT) THEN "NO_FIRST_EVENT"
  ELSE IF Includes(msg, T_REQUEST_TIMEOUT) THEN "TIMEOUT"
  ELSE IF Includes(msg, T_AbortError) \/ Includes(msg, T_aborted) THEN "TIMEOUT"
  ELSE "ERROR"

ClassifyNonStreaming(msg) ==
  IF Includes(msg, T_REQUEST_TIMEOUT) THEN "TIMEOUT" ELSE "ERROR"

ClassifyBenchNonStreaming(msg) ==
  IF Includes(msg, T_TIMEOUT) THEN "TIMEOUT" ELSE "ERROR"

ClassifyFoundry(msg) ==
  IF Includes(msg, T_TIMEOUT) \/ Includes(msg, T_timeout) THEN "TIMEOUT"
  ELSE IF Includes(msg, T_ECONNREFUSED) \/ Includes(msg, T_ENOTFOUND) THEN "FAIL"
  ELSE "ERROR"

\* ClassifyCopilot where an untagged abort is HANG whatever the chunk count
ClassifyCopilot_AlwaysHang(msg, count) ==
  IF Includes(msg, T_FIRST_EVENT_TIMEOUT) \/ Includes(msg, T_NO_FIRST_EVENT)
    THEN "NO_FIRST_EVENT"
  ELSE IF Includes(msg, T_REQUEST_TIMEOUT) THEN "TIMEOUT"
  ELSE IF Includes(msg, T_AbortError) \/ Includes(msg, T_aborted)
            \/ Includes(msg, T_abort)
    THEN "HANG"
  ELSE IF Includes(msg, T_ECONNREFUSED) \/ Includes(msg, T_ENOTFOUND) THEN "FAIL"
  ELSE "ERROR"

ClassifyCopilot(msg, count) ==
  IF Includes(msg, T_FIRST_EVENT_TIMEOUT) \/ Includes(msg, T_NO_FIRST_EVENT)
    THEN "NO_FIRST_EVENT"
  ELSE IF Includes(msg, T_REQUEST_TIMEOUT) THEN "TIMEOUT"
  ELSE IF Includes(msg, T_AbortError) \/ Includes(msg, T_aborted)
            \/ Includes(msg, T_abort)
    THEN (IF count = 0 THEN "HANG" ELSE "TIMEOUT")
  ELSE IF Includes(msg, T_ECONNREFUSED) \/ Includes(msg, T_ENOTFOUND) THEN "FAIL"
  ELSE "ERROR"

Classify(k, msg, count) ==
  CASE k \in StreamingFetchKinds -> ClassifyStreaming(msg)
    [] k = "non-streaming" -> ClassifyNonStreaming(msg)
    [] k = "bench-non-streaming" -> ClassifyBenchNonStreaming(msg)
    [] k \in FoundryKinds -> ClassifyFoundry(msg)
    [] OTHER -> ClassifyCopilot(msg, count)

\* StreamOutcome without the chunkCount > 0 branch
StreamOutcome_NoFail(done, count) ==
  IF done THEN "OK" ELSE "NO_FIRST_EVENT"

\* outcome = doneReceived ? "OK" : chunkCount > 0 ? "FAIL" : "NO_FIRST_EVENT"
StreamOutcome(done, count) ==
  IF done THEN "OK" ELSE IF count > 0 THEN "FAIL" ELSE "NO_FIRST_EVENT"

\* ------------------------------------------------------------ SSE payloads
DONE == "[DONE]"
\* the data: payloads a server sends

\* parsed.choices?.[0]?.delta?.content of JSON.parse(evt.data), when it parses
DeltaContent(data) == IF data = "{delta:hi}" THEN <<"hi">> ELSE <<>>
\* parsed?.choices?.[0]?.finish_reason === "stop"
FinishStop(data) == data = "{finish:stop}"

\* ----------------------------------------------------------------- state
VARIABLES
  kind,               \* which probe function runs
  cfg,                \* the three timeout values
  now,                \* the clock (Date.now and the timers share it)
  pc,                 \* the await the probe is suspended at
  armed,              \* armed timers: name -> deadline
  abortReason,        \* controller.signal: "none" or the abort reason
  headersReceived,
  firstEventReceived,
  httpStatus,
  chunkCount,
  doneReceived,
  tokenParts,
  timer,              \* the Timer object
  pending,            \* events of the current chunk the decoder has yet to yield
  streamEnded,        \* reader.read() has returned done
  result,             \* the returned ProbeResult
  srv,                \* what the server did and which await saw the abort
  \* parseSSE run on its own, on a stream of text chunks
  input,              \* the chunks the stream delivers, in order
  pos,                \* how many of them reader.read() has returned
  buffer,             \* the decoder's buffer
  queue,              \* events of the current chunk (or flush) still to yield
  events,             \* the payloads yielded so far
  ssePc,              \* where the generator is suspended
  signalAborted,      \* signal.aborted
  \* a Timer object used on its own
  clock,              \* Date.now()
  theTimer,           \* the Timer
  calls,              \* the calls made on it, with what toTimings returned
  \* a diagnostic or benchmark run
  program,            \* which entry point runs
  catalog,            \* the model ids of the catalog (benchmark)
  inflight,           \* the probes started and not yet returned
  nsResult,           \* the non-streaming result held while streaming runs
  report,             \* the results (diagnostic) or entries (benchmark) so far
  started,            \* every probe started, in order
  \* resolveModelId called on its own
  modelIdentifier,    \* the identifier given
  models,             \* the catalog given
  resolved,           \* what resolveModelId returned
  \* the web server
  cfgFoundryModel,    \* cfg.foundryModel of the shared config object
  requests,           \* the POST requests: what each was sent and got
  \* the SDK wrapper
  manager,            \* _manager
  created,            \* how often FoundryLocalManager.create was invoked
  callers             \* the getManager() calls: where each is, what it got

probeVars == <<kind, cfg, now, pc, armed, abortReason, headersReceived,
               firstEventReceived, httpStatus, chunkCount, doneReceived,
               tokenParts, timer, pending, streamEnded, result, srv>>

sseVars == <<input, pos, buffer, queue, events, ssePc, signalAborted>>

timerVars == <<clock, theTimer, calls>>

runVars == <<program, catalog, inflight, nsResult, report, started>>

extVars == <<modelIdentifier, models, resolved, cfgFoundryModel, requests,
             manager, created, callers>>

vars == <<probeVars, sseVars, timerVars, runVars, extVars>>

TimerNames == {"requestTimer", "firstByteTimer", "firstEventTimer"}

\* setTimeout order inside the probe: timers of equal delay fire in this order
TimerOrder(t) ==
  CASE t = "requestTimer" -> 1 [] t = "firstByteTimer" -> 2 [] OTHER -> 3

\* The timeouts a probe reads; the others are left at the overall timeout.
ConfigsOf(k) ==
  {c \in [requestTimeoutMs : 1..MaxTimeout,
          firstByteTimeoutMs : 1..MaxTimeout,
          firstEventTimeoutMs : 1..MaxTimeout] :
     /\ k \notin StreamingFetchKinds => c.firstByteTimeoutMs = c.requestTimeoutMs
     /\ k \notin StreamingFetchKinds \cup {"copilot-sdk-streaming"}
          => c.firstEventTimeoutMs = c.requestTimeoutMs}

\* ----------------------------------------------------------------- Timer
NewTimer(t) == [start |-> t, end |-> None, ttfb |-> None, firstEvent |-> None]

\* markTTFB that records nothing
markTTFB_Never(tm, t) == tm

\* markTTFB with the guard on the first call left out
markTTFB_Overwrite(tm, t) == [tm EXCEPT !.ttfb = Some(t - tm.start)]

markTTFB(tm, t) ==
  IF tm.ttfb = None THEN [tm EXCEPT !.ttfb = Some(t - tm.start)] ELSE tm

markFirstEvent(tm, t) ==
  IF tm.firstEvent = None THEN [tm EXCEPT !.firstEvent = Some(t - tm.start)] ELSE tm

stop(tm, t) == IF tm.end = None THEN [tm EXCEPT !.end = Some(t)] ELSE tm

\* toTimings() stops the timer first; the snapshot is of the stopped timer
toTimings(tm, t) ==
  LET s == stop(tm, t) IN
    [startMs |-> s.start, endMs |-> s.end[1], totalMs |-> s.end[1] - s.start,
     ttfbMs |-> s.ttfb, firstEventMs |-> s.firstEvent]

\* ------------------------------------------------------- timers at start
\* InitialTimers with the first-byte timer armed with the overall delay
InitialTimers_SameDelay(k, c) ==
  CASE k \in StreamingFetchKinds ->
         [t \in TimerNames |->
            CASE t = "requestTimer" -> c.requestTimeoutMs
              [] t = "firstByteTimer" -> c.requestTimeoutMs
              [] OTHER -> c.firstEventTimeoutMs]
    [] k = "copilot-sdk-streaming" ->
         [t \in {"requestTimer", "firstEventTimer"} |->
            IF t = "requestTimer" THEN c.requestTimeoutMs
            ELSE c.firstEventTimeoutMs]
    [] k = "foundry-sdk" -> [t \in {} |-> 0]
    [] OTHER -> [t \in {"requestTimer"} |-> c.requestTimeoutMs]

\* The timers each probe arms before its first await.
InitialTimers(k, c) ==
  CASE k \in StreamingFetchKinds ->
         [t \in TimerNames |->
            CASE t = "requestTimer" -> c.requestTimeoutMs
              [] t = "firstByteTimer" -> c.firstByteTimeoutMs
              [] OTHER -> c.firstEventTimeoutMs]
    [] k = "copilot-sdk-streaming" ->
         [t \in {"requestTimer", "firstEventTimer"} |->
            IF t = "requestTimer" THEN c.requestTimeoutMs
            ELSE c.firstEventTimeoutMs]
    [] k = "foundry-sdk" -> [t \in {} |-> 0]
    [] OTHER -> [t \in {"requestTimer"} |-> c.requestTimeoutMs]

\* no parseSSE generator of its own is running
DecoderIdle ==
  /\ input = <<>>
  /\ pos = 0
  /\ buffer = <<>>
  /\ queue = <<>>
  /\ events = <<>>
  /\ ssePc = "idle"
  /\ signalAborted = FALSE

\* The probe k, configured with c, after its prologue: Timer created, timers
\* armed, nothing awaited yet.
ProbeStart(k, c) ==
  /\ kind = k
  /\ cfg = c
  /\ now = 0
  /\ pc = IF k \in FoundryKinds THEN "resolve" ELSE "fetch"
  /\ armed = InitialTimers(k, c)
  /\ abortReason = "none"
  /\ headersReceived = FALSE
  /\ firstEventReceived = FALSE
  /\ httpStatus = None
  /\ chunkCount = 0
  /\ doneReceived = FALSE
  /\ tokenParts = <<>>
  /\ timer = NewTimer(0)
  /\ pending = <<>>
  /\ streamEnded = FALSE
  /\ result = None
  /\ srv = [status |-> None, body |-> None, sentinel |-> FALSE, sent |-> 0,
            doneAt |-> 0, observer |-> "none", netError |-> FALSE, late |-> FALSE]

\* no Timer is exercised on its own
TimerIdle ==
  /\ clock = 0
  /\ theTimer = NewTimer(0)
  /\ calls = <<>>

\* no run is under way
RunIdle ==
  /\ program = "none"
  /\ catalog = <<>>
  /\ inflight = {}
  /\ nsResult = None
  /\ report = <<>>
  /\ started = <<>>

\* a request not yet received
NoRequest ==
  [state |-> "none", route |-> "none", model |-> None, calls |-> <<>>,
   results |-> <<>>, response |-> None]

\* the web server and the SDK wrapper as their modules leave them when
\* loaded: no config, no request, no manager, no getManager() call
ModulesLoaded ==
  /\ cfgFoundryModel = ""
  /\ requests = [r \in 1..MaxRequests |-> NoRequest]
  /\ manager = None
  /\ created = 0
  /\ callers = [c \in 1..MaxCallers |-> [pc |-> "idle", instance |-> 0, got |-> None]]

\* resolveModelId is not called, and no request or getManager() call is made
ExtIdle ==
  /\ modelIdentifier = <<>>
  /\ models = <<>>
  /\ resolved = None
  /\ ModulesLoaded

Init ==
  /\ DecoderIdle
  /\ TimerIdle
  /\ RunIdle
  /\ ExtIdle
  /\ \E k \in Kinds : \E c \in ConfigsOf(k) : ProbeStart(k, c)

\* ------------------------------------------------------------ the result
MkResult(outcome, hs, cc, dr, tp, er, tim) ==
  [outcome |-> outcome, httpStatus |-> hs, chunkCount |-> cc,
   doneReceived |-> dr, tokenPreview |-> tp, error |-> er, timings |-> tim]

NoTimers == [t \in {} |-> 0]

clearTimeout(a, t) == [x \in (DOMAIN a) \ {t} |-> a[x]]

\* ClearOnExit where no probe clears its timers
ClearOnExit_Kept(k, a) == a

\* What is left armed once the probe has returned (finally blocks, and the
\* clearTimeout calls of the Foundry streaming probe).  AbortSignal.timeout of
\* the Foundry non-streaming probe cannot be cleared.
ClearOnExit(k, a) == IF k = "foundry-sdk" THEN a ELSE NoTimers

\* InTry with the body reads left outside the try block
InTry_ReadOutside(k, site) == site \notin {"read", "json"}

\* Whether a failure raised at the given await is inside the probe's try block
\* (or handled by a .catch on the awaited promise).
InTry(k, site) == TRUE

\* The result built by the catch block of each probe.
CatchResult(k, err, count, done, hs, tm, t) ==
  LET msg == ErrorMessage(err)
      outcome == Classify(k, msg, count)
      tim == toTimings(stop(tm, t), t)
  IN CASE k \in StreamingFetchKinds ->
            MkResult(outcome, hs, None, None, None, Some(msg), tim)
       [] k = "copilot-sdk-streaming" ->
            MkResult(outcome, hs, IF count > 0 THEN Some(count) ELSE None,
                     Some(done), None, Some(msg), tim)
       [] OTHER ->
            MkResult(outcome, None, None, None, None, Some(msg), tim)

\* Return where a failed attempt starts the request again
Return_Retry(r, tm) ==
  /\ pc' = IF r.error # None THEN "fetch" ELSE "done"
  /\ result' = Some(r)
  /\ timer' = tm
  /\ armed' = ClearOnExit(kind, armed)

\* return: the probe is over, its finally block has run
Return(r, tm) ==
  /\ pc' = "done"
  /\ result' = Some(r)
  /\ timer' = tm
  /\ armed' = ClearOnExit(kind, armed)

\* A value thrown at `site` with the loop variables as given.
Throw(err, site, count, done) ==
  IF InTry(kind, site)
    THEN Return(CatchResult(kind, err, count, done, httpStatus, timer, now),
                stop(timer, now))
    ELSE /\ pc' = "thrown"
         /\ result' = None
         /\ timer' = timer
         /\ armed' = armed

\* The normal return after the streaming loop.
FinishStream(count, done, parts, tm) ==
  LET done2 == IF kind = "copilot-sdk-streaming" /\ ~done /\ count > 0
                 THEN TRUE ELSE done
      hs == IF kind = "foundry-sdk-streaming" THEN srv.status ELSE httpStatus
      tm2 == stop(tm, now)
  IN Return(MkResult(StreamOutcome(done2, count), hs, Some(count), Some(done2),
                     Some(parts), None, toTimings(tm2, now)), tm2)

\* the "HTTP <status>: <text>" result of a non-2xx response whose body was read
ErrBodyResult(tm) ==
  MkResult("FAIL", httpStatus, None, None, None, Some(<<"HTTP ", httpStatus[1]>>),
           toTimings(tm, now))

Ok(status) == status = "200"

\* ------------------------------------------------------------ SDK lookup
\* resolveModelViaSDK returns (it never throws); the probe marks TTFB and
\* issues its fetch.  The non-streaming probe arms AbortSignal.timeout here.
ResolveReturns ==
  /\ pc = "resolve"
  /\ UNCHANGED <<sseVars, timerVars, runVars, extVars>>
  /\ pc' = "fetch"
  /\ timer' = markTTFB(timer, now)
  /\ armed' = IF kind = "foundry-sdk"
                THEN [t \in {"requestTimer"} |-> now + cfg.requestTimeoutMs]
                ELSE armed
  /\ UNCHANGED <<kind, cfg, now, abortReason, headersReceived, firstEventReceived,
                 httpStatus, chunkCount, doneReceived, tokenParts, pending,
                 streamEnded, result, srv>>

\* ------------------------------------------------------- response headers
HeadersArrive(status) ==
  /\ pc = "fetch"
  /\ UNCHANGED <<sseVars, timerVars, runVars, extVars>>
  /\ abortReason = "none"
  /\ srv' = [srv EXCEPT !.status = Some(status)]
  /\ UNCHANGED <<kind, cfg, now, abortReason, chunkCount, doneReceived,
                 tokenParts, pending, streamEnded, firstEventReceived>>
  /\ CASE kind \in StreamingFetchKinds ->
            /\ headersReceived' = TRUE
            /\ armed' = clearTimeout(armed, "firstByteTimer")
            /\ timer' = IF kind = "raw-streaming"
                          THEN stop(markTTFB(timer, now), now)
                          ELSE markTTFB(timer, now)
            /\ httpStatus' = Some(status)
            /\ pc' = IF Ok(status) THEN "read" ELSE "errbody"
            /\ result' = result
       [] kind \in NonStreamingFetchKinds ->
            /\ timer' = markTTFB(timer, now)
            /\ httpStatus' = Some(status)
            /\ pc' = IF Ok(status) THEN "json" ELSE "errbody"
            /\ UNCHANGED <<headersReceived, armed, result>>
       [] kind \in FoundryKinds ->
            /\ UNCHANGED <<headersReceived, httpStatus>>
            /\ IF Ok(status)
                 THEN /\ pc' = IF kind = "foundry-sdk" THEN "json" ELSE "read"
                      /\ UNCHANGED <<timer, armed, result>>
                 ELSE Throw(HTTPError(status), "status", chunkCount, doneReceived)
       [] OTHER ->
            /\ headersReceived' = headersReceived
            /\ IF Ok(status)
                 THEN /\ \E hs \in {None, Some(status)} : httpStatus' = hs
                      /\ timer' = stop(markTTFB(timer, now), now)
                      /\ pc' = "read"
                      /\ UNCHANGED <<armed, result>>
                 ELSE /\ httpStatus' = httpStatus
                      /\ Throw(APIStatusError(status), "fetch", chunkCount,
                               doneReceived)

\* What the request promise rejects with when the connection cannot be made.
\* The text of fetch's rejection is the runtime's: "fetch failed", or one that
\* names the system error.  The OpenAI client wraps it in its own error.
NetworkErrors(k) ==
  IF k = "copilot-sdk-streaming"
    THEN {ErrorObject(<<"Connection error.">>)}
    ELSE {FetchFailed,
          ErrorObject(<<"connect ", "ECONNREFUSED", " 127.0.0.1:5273">>),
          ErrorObject(<<"getaddrinfo ", "ENOTFOUND", " localhost">>)}

\* the connection fails: the request promise rejects
FetchFails ==
  /\ pc = "fetch"
  /\ UNCHANGED <<sseVars, timerVars, runVars, extVars>>
  /\ abortReason = "none"
  /\ srv' = [srv EXCEPT !.netError = TRUE]
  /\ \E err \in NetworkErrors(kind) : Throw(err, "fetch", chunkCount, doneReceived)
  /\ UNCHANGED <<kind, cfg, now, abortReason, headersReceived, firstEventReceived,
                 httpStatus, chunkCount, doneReceived, tokenParts, pending,
                 streamEnded>>

\* ------------------------------------------------- awaits seeing the abort
AbortableAwaits == {"fetch", "errbody", "json", "read"}

\* The values the pending await may reject with once the signal is aborted.
\* The OpenAI client may replace the reason by its own abort error.
AbortErrors(k, reason) ==
  IF k = "copilot-sdk-streaming"
    THEN {ReasonValue(reason), APIUserAbortError}
    ELSE {ReasonValue(reason)}

AbortRejects ==
  /\ pc \in AbortableAwaits
  /\ UNCHANGED <<sseVars, timerVars, runVars, extVars>>
  /\ abortReason # "none"
  /\ srv' = [srv EXCEPT !.observer = pc]
  /\ IF pc = "errbody"
       THEN Return(ErrBodyResult(stop(timer, now)), stop(timer, now))
       ELSE \E err \in AbortErrors(kind, abortReason) :
              Throw(err, pc, chunkCount, doneReceived)
  /\ UNCHANGED <<kind, cfg, now, abortReason, headersReceived, firstEventReceived,
                 httpStatus, chunkCount, doneReceived, tokenParts, pending,
                 streamEnded>>

\* res.text() of a non-2xx response settles (a rejection is replaced by a
\* placeholder text): FAIL
ErrBodyRead ==
  /\ pc = "errbody"
  /\ UNCHANGED <<sseVars, timerVars, runVars, extVars>>
  /\ abortReason = "none"
  /\ Return(ErrBodyResult(stop(timer, now)), stop(timer, now))
  /\ UNCHANGED <<kind, cfg, now, abortReason, headersReceived, firstEventReceived,
                 httpStatus, chunkCount, doneReceived, tokenParts, pending,
                 streamEnded, srv>>

\* ------------------------------------------------------ non-streaming body
JsonResolves(body) ==
  /\ pc = "json"
  /\ UNCHANGED <<sseVars, timerVars, runVars, extVars>>
  /\ abortReason = "none"
  /\ srv' = [srv EXCEPT !.body = Some(body)]
  /\ IF body = "malformed"
       THEN Throw(JSONSyntaxError, "json", chunkCount, doneReceived)
       ELSE LET tm == stop(timer, now)
                hasChoices == body = "content"
                preview == IF hasChoices THEN <<"hi">> ELSE <<>>
                tim == toTimings(tm, now)
            IN CASE kind = "non-streaming" ->
                      Return(MkResult(IF hasChoices THEN "OK" ELSE "FAIL",
                                      httpStatus, None, None, None,
                                      IF hasChoices THEN None
                                      ELSE Some(<<"missing choices">>), tim), tm)
                 [] kind = "bench-non-streaming" ->
                      Return(MkResult(IF hasChoices THEN "OK" ELSE "FAIL",
                                      httpStatus, None, None, Some(preview),
                                      IF hasChoices THEN None
                                      ELSE Some(<<"missing choices">>), tim), tm)
                 [] OTHER ->
                      Return(MkResult("OK", srv.status, None, None, Some(preview),
                                      None, tim), tm)
  /\ UNCHANGED <<kind, cfg, now, abortReason, headersReceived, firstEventReceived,
                 httpStatus, chunkCount, doneReceived, tokenParts, pending,
                 streamEnded>>

\* --------------------------------------------------------- streaming body
\* Chunks the server may send: up to MaxPerChunk decoded data: events.
Chunks ==
  UNION {[1..n -> {DONE, "{delta:hi}", "{finish:stop}", "not json"}] :
           n \in 0..MaxPerChunk}

IndexOfDone(evs) ==
  IF \E i \in 1..Len(evs) : evs[i] = DONE
    THEN CHOOSE i \in 1..Len(evs) :
           evs[i] = DONE /\ \A j \in 1..(i - 1) : evs[j] # DONE
    ELSE Len(evs) + 1

\* What the iterator hands to the probe loop.  parseSSE yields every event;
\* the OpenAI client's stream swallows [DONE] and everything after it.
Visible(k, evs, sawDone) ==
  IF k = "copilot-sdk-streaming"
    THEN IF sawDone THEN <<>> ELSE SubSeq(evs, 1, IndexOfDone(evs) - 1)
    ELSE evs

\* reader.read() resolves with a chunk (end = FALSE), or the stream ends and
\* the decoder flushes what its buffer still holds (end = TRUE).
ReadResolves(evs, end) ==
  /\ pc = "read"
  /\ UNCHANGED <<sseVars, timerVars, runVars, extVars>>
  /\ abortReason = "none"
  /\ srv.sent + Len(evs) <= MaxEvents
  /\ evs # <<>> \/ end
  /\ kind = "copilot-sdk-streaming" => \A i \in 1..Len(evs) : evs[i] # "not json"
  /\ srv' = [srv EXCEPT !.sent = @ + Len(evs),
                        !.sentinel = @ \/ (\E i \in 1..Len(evs) : evs[i] = DONE),
                        !.doneAt = IF @ = 0 /\ IndexOfDone(evs) <= Len(evs)
                                     THEN srv.sent + IndexOfDone(evs) ELSE @]
  /\ LET vis == Visible(kind, evs, srv.sentinel) IN
       IF vis = <<>>
         THEN IF end
                THEN /\ FinishStream(chunkCount, doneReceived, tokenParts, timer)
                     /\ streamEnded' = TRUE
                     /\ UNCHANGED pending
                ELSE UNCHANGED <<pc, pending, streamEnded, result, timer, armed>>
         ELSE /\ pending' = vis
              /\ streamEnded' = end
              /\ pc' = "deliver"
              /\ UNCHANGED <<result, timer, armed>>
  /\ UNCHANGED <<kind, cfg, now, abortReason, headersReceived, firstEventReceived,
                 httpStatus, chunkCount, doneReceived, tokenParts>>

\* the connection breaks while the body is being read
BodyReadFails ==
  /\ pc = "read"
  /\ UNCHANGED <<sseVars, timerVars, runVars, extVars>>
  /\ abortReason = "none"
  /\ srv' = [srv EXCEPT !.netError = TRUE]
  /\ Throw(Terminated, "read", chunkCount, doneReceived)
  /\ UNCHANGED <<kind, cfg, now, abortReason, headersReceived, firstEventReceived,
                 httpStatus, chunkCount, doneReceived, tokenParts, pending,
                 streamEnded>>

\* OnFirstEvent that marks the first event but neither sets the flag nor
\* clears the first-event timer
OnFirstEvent_NoFlag(k, s) == [s EXCEPT !.timer = markFirstEvent(s.timer, s.at)]

\* OnFirstEvent with the block left out of the loop body
OnFirstEvent_Missing(k, s) == s

\* The first-event block of the loop body, on the probe's flag, timers and
\* Timer: set the flag, clearTimeout(firstEventTimer) where the probe has that
\* timer, markFirstEvent(), and the toTimings() of the log line where the probe
\* logs the first event.
OnFirstEvent(k, s) ==
  IF s.received THEN s
  ELSE [received |-> TRUE,
        armed |-> IF k = "foundry-sdk-streaming" THEN s.armed
                  ELSE clearTimeout(s.armed, "firstEventTimer"),
        timer |-> IF k = "bench-streaming" THEN markFirstEvent(s.timer, s.at)
                  ELSE stop(markFirstEvent(s.timer, s.at), s.at),
        at |-> s.at]

\* doneReceived after the loop body has handled one event
DoneOnEvent(k, data, done) ==
  CASE k \in StreamingFetchKinds -> done \/ data = DONE
    [] k = "foundry-sdk-streaming" -> done \/ data = DONE \/ FinishStop(data)
    [] OTHER -> done \/ FinishStop(data)

\* BreaksOn with the break left out
BreaksOn_Never(k, data) == FALSE

\* the loop leaves on this event (break)
BreaksOn(k, data) == k \in ParseSSEKinds /\ data = DONE

\* The probe's loop body runs on the event the iterator has yielded, and the
\* iterator is resumed up to its next yield, read, throw or return.
ConsumeEvent ==
  /\ pc = "deliver"
  /\ UNCHANGED <<sseVars, timerVars, runVars, extVars>>
  /\ LET data == Head(pending)
         rest == Tail(pending)
         fe == OnFirstEvent(kind, [received |-> firstEventReceived,
                                   armed |-> armed, timer |-> timer, at |-> now])
         count == chunkCount + 1
         done == DoneOnEvent(kind, data, doneReceived)
         parts == IF data = DONE THEN tokenParts ELSE tokenParts \o DeltaContent(data)
         tm == fe.timer
         a == fe.armed
     IN /\ chunkCount' = count
        /\ firstEventReceived' = fe.received
        /\ doneReceived' = done
        /\ tokenParts' = parts
        /\ IF BreaksOn(kind, data)
             THEN /\ FinishStream(count, done, parts, tm)
                  /\ UNCHANGED <<pending, srv>>
           ELSE IF rest # <<>>
             THEN /\ pending' = rest
                  /\ timer' = tm
                  /\ armed' = a
                  /\ UNCHANGED <<pc, result, srv>>
           ELSE IF streamEnded
             THEN /\ FinishStream(count, done, parts, tm)
                  /\ pending' = rest
                  /\ srv' = srv
           ELSE IF kind \in ParseSSEKinds /\ abortReason # "none"
             THEN /\ pending' = rest
                  /\ srv' = [srv EXCEPT !.observer = "check"]
                  /\ IF InTry(kind, "check")
                       THEN Return(CatchResult(kind, SSEAbortError, count, done,
                                               httpStatus, tm, now), stop(tm, now))
                       ELSE /\ pc' = "thrown"
                            /\ UNCHANGED <<result, timer, armed>>
           ELSE /\ pending' = rest
                /\ pc' = "read"
                /\ timer' = tm
                /\ armed' = a
                /\ UNCHANGED <<result, srv>>
  /\ UNCHANGED <<kind, cfg, now, abortReason, headersReceived, httpStatus,
                 streamEnded>>

\* ------------------------------------------------------------------ timers
\* A timer is due when its deadline has come and no timer armed before it with
\* an earlier or equal deadline is still waiting.
Due(t) ==
  /\ t \in DOMAIN armed
  /\ armed[t] <= now
  /\ \A u \in DOMAIN armed :
       u # t => \/ armed[u] > armed[t]
                \/ (armed[u] = armed[t] /\ TimerOrder(u) > TimerOrder(t))

\* the reason controller.abort is called with by each probe's overall timer
RequestReason(k) ==
  CASE k = "foundry-sdk" -> "TimeoutError"
    [] k = "foundry-sdk-streaming" -> "AbortError"
    [] OTHER -> "REQUEST_TIMEOUT"

\* NewReason where a later callback overwrites the reason
NewReason_Overwrite(t) ==
  CASE t = "requestTimer" -> RequestReason(kind)
    [] t = "firstByteTimer" ->
         IF ~headersReceived THEN "FIRST_BYTE_TIMEOUT" ELSE abortReason
    [] OTHER ->
         IF ~firstEventReceived THEN "FIRST_EVENT_TIMEOUT" ELSE abortReason

\* NewReason where the overall timer carries the first-byte timer's condition
NewReason_RequestConditional(t) ==
  CASE abortReason # "none" -> abortReason
    [] t = "requestTimer" ->
         IF ~headersReceived THEN RequestReason(kind) ELSE abortReason
    [] t = "firstByteTimer" ->
         IF ~headersReceived THEN "FIRST_BYTE_TIMEOUT" ELSE abortReason
    [] OTHER ->
         IF ~firstEventReceived THEN "FIRST_EVENT_TIMEOUT" ELSE abortReason

\* The abort reason after the callback of timer t has run.  abort() on an
\* aborted signal changes nothing.
NewReason(t) ==
  CASE abortReason # "none" -> abortReason
    [] t = "requestTimer" -> RequestReason(kind)
    [] t = "firstByteTimer" ->
         IF ~headersReceived THEN "FIRST_BYTE_TIMEOUT" ELSE abortReason
    [] OTHER ->
         IF ~firstEventReceived THEN "FIRST_EVENT_TIMEOUT" ELSE abortReason

TimerFires(t) ==
  /\ Due(t)
  /\ UNCHANGED <<sseVars, timerVars, runVars, extVars>>
  /\ armed' = clearTimeout(armed, t)
  /\ abortReason' = NewReason(t)
  /\ srv' = [srv EXCEPT !.late = @ \/ abortReason # "none"]
  /\ UNCHANGED <<kind, cfg, now, pc, headersReceived, firstEventReceived,
                 httpStatus, chunkCount, doneReceived, tokenParts, timer, pending,
                 streamEnded, result>>

requestTimer == TimerFires("requestTimer")
firstByteTimer == TimerFires("firstByteTimer")
firstEventTimer == TimerFires("firstEventTimer")

\* The probe has a continuation ready to run: time does not pass before it.
ProbeRunnable ==
  \/ pc = "deliver"
  \/ pc \in AbortableAwaits /\ abortReason # "none"

Tick ==
  /\ pc \notin {"done", "thrown"}
  /\ UNCHANGED <<sseVars, timerVars, runVars, extVars>>
  /\ ~ProbeRunnable
  /\ \A t \in DOMAIN armed : armed[t] > now
  /\ now < MaxTime \/ \E t \in DOMAIN armed : armed[t] > now
  /\ now' = now + 1
  /\ UNCHANGED <<kind, cfg, pc, armed, abortReason, headersReceived,
                 firstEventReceived, httpStatus, chunkCount, doneReceived,
                 tokenParts, timer, pending, streamEnded, result, srv>>

\* ------------------------------------------------------------------- Next
Next ==
  \/ ResolveReturns
  \/ \E status \in {"200", "500", "504"} : HeadersArrive(status)
  \/ FetchFails
  \/ AbortRejects
  \/ ErrBodyRead
  \/ \E body \in {"content", "nochoices", "malformed"} : JsonResolves(body)
  \/ \E evs \in Chunks, end \in BOOLEAN : ReadResolves(evs, end)
  \/ BodyReadFails
  \/ ConsumeEvent
  \/ requestTimer
  \/ firstByteTimer
  \/ firstEventTimer
  \/ Tick

Spec == Init /\ [][Next]_vars

\* Timers that are due fire, time passes, and a continuation that is ready
\* runs; nothing is assumed of the server.
FairSpec ==
  /\ Spec
  /\ WF_vars(Tick)
  /\ WF_vars(requestTimer) /\ WF_vars(firstByteTimer) /\ WF_vars(firstEventTimer)
  /\ WF_vars(AbortRejects)
  /\ WF_vars(ConsumeEvent)

\* The outcomes each probe function has a return statement for.
ReturnedOutcomes(k) ==
  CASE k \in NonStreamingFetchKinds -> {"OK", "FAIL", "TIMEOUT", "ERROR"}
    [] k \in StreamingFetchKinds ->
         {"OK", "FAIL", "NO_FIRST_EVENT", "NO_FIRST_BYTE", "TIMEOUT", "ERROR"}
    [] k = "foundry-sdk" -> {"OK", "FAIL", "TIMEOUT", "ERROR"}
    [] k = "foundry-sdk-streaming" ->
         {"OK", "FAIL", "NO_FIRST_EVENT", "TIMEOUT", "ERROR"}
    [] OTHER -> {"OK", "FAIL", "NO_FIRST_EVENT", "TIMEOUT", "HANG", "ERROR"}

TypeOK ==
  /\ pc \in {"resolve", "fetch", "errbody", "json", "read", "deliver", "done", "thrown"}
  /\ now \in 0..(MaxTime + MaxTimeout)
  /\ chunkCount \in 0..MaxEvents
  /\ (pc = "done") <=> (result # None)
  /\ (pc = "done") => result[1].outcome \in ReturnedOutcomes(kind)

\* ================================================================ parseSSE
\* The decoder run on its own.  A text is a sequence of characters, with the
\* five characters "data:" taken as one.
NL == "\n"
SP == " "
DATA == "data:"

Texts == UNION {[1..n -> {DATA, ":", SP, NL, "x"}] : n \in 0..MaxText}

RECURSIVE Flatten(_)
Flatten(chunks) ==
  IF chunks = <<>> THEN <<>> ELSE Head(chunks) \o Flatten(Tail(chunks))

\* every way of cutting a text into successive non-empty chunks
RECURSIVE Chunkings(_)
Chunkings(text) ==
  IF text = <<>> THEN {<<>>}
  ELSE UNION {{<<SubSeq(text, 1, i)>> \o rest :
                 rest \in Chunkings(SubSeq(text, i + 1, Len(text)))} :
              i \in 1..Len(text)}

IsSpace(ch) == ch \in {SP, NL}

RECURSIVE trimStart(_)
trimStart(str) ==
  IF str # <<>> /\ IsSpace(Head(str)) THEN trimStart(Tail(str)) ELSE str

RECURSIVE trimEnd(_)
trimEnd(str) ==
  IF str # <<>> /\ IsSpace(str[Len(str)])
    THEN trimEnd(SubSeq(str, 1, Len(str) - 1)) ELSE str

trim(str) == trimEnd(trimStart(str))

\* String.split on a separator: the pieces between its successive,
\* non-overlapping occurrences, leftmost first
RECURSIVE split(_, _)
split(str, sep) ==
  LET hits == {i \in 1..(Len(str) - Len(sep) + 1) :
                 SubSeq(str, i, i + Len(sep) - 1) = sep}
  IN IF hits = {} THEN <<str>>
     ELSE LET i == CHOOSE h \in hits : \A g \in hits : h <= g
          IN <<SubSeq(str, 1, i - 1)>>
               \o split(SubSeq(str, i + Len(sep), Len(str)), sep)

\* line.startsWith("data:")
startsWith(line) == line # <<>> /\ Head(line) = DATA

\* line.slice(5).trimStart()
payload(line) == trimStart(Tail(line))

\* the payloads yielded for a list of lines
RECURSIVE LineEvents(_)
LineEvents(lines) ==
  IF lines = <<>> THEN <<>>
  ELSE (IF startsWith(Head(lines)) THEN <<payload(Head(lines))>> ELSE <<>>)
         \o LineEvents(Tail(lines))

\* the payloads yielded for the complete segments of a chunk
RECURSIVE SegmentEvents(_)
SegmentEvents(segments) ==
  IF segments = <<>> THEN <<>>
  ELSE LET trimmed == trim(Head(segments))
       IN (IF trimmed = <<>> THEN <<>> ELSE LineEvents(split(trimmed, <<NL>>)))
            \o SegmentEvents(Tail(segments))

\* PopTail where the incomplete tail is thrown away
PopTail_Dropped(segments) == <<>>

\* buffer = segments.pop() ?? ""
PopTail(segments) == segments[Len(segments)]

\* FlushEvents without the flush
FlushEvents_None(buf) == <<>>

\* the payloads yielded from what the buffer holds when the stream ends
FlushEvents(buf) ==
  IF trim(buf) = <<>> THEN <<>> ELSE LineEvents(split(trim(buf), <<NL>>))

\* the generator's state after one read returned a chunk
AfterChunk(buf, chunk) ==
  LET segments == split(buf \o chunk, <<NL, NL>>)
  IN [buffer |-> PopTail(segments),
      queue |-> SegmentEvents(SubSeq(segments, 1, Len(segments) - 1))]

\* the top of the while loop: throw if the signal is aborted, else read
LoopTop(aborted) == IF aborted THEN "thrown" ELSE "read"

\* parseSSE has been called with a stream and a signal that is not aborted,
\* and waits for its first read.
SSEInit ==
  /\ TimerIdle
  /\ RunIdle
  /\ ExtIdle
  /\ ProbeStart("raw-streaming",
                [requestTimeoutMs |-> 1, firstByteTimeoutMs |-> 1,
                 firstEventTimeoutMs |-> 1])
  /\ \E text \in Texts : input \in Chunkings(text)
  /\ pos = 0
  /\ buffer = <<>>
  /\ queue = <<>>
  /\ events = <<>>
  /\ ssePc = LoopTop(FALSE)
  /\ signalAborted = FALSE

\* reader.read() returns: the next chunk, or done.  The generator runs on to
\* its first yield, to the next loop top, or to its end.
SSERead ==
  /\ ssePc = "read"
  /\ IF pos = Len(input)
       THEN LET q == FlushEvents(buffer)
            IN /\ events' = IF q = <<>> THEN events ELSE Append(events, Head(q))
               /\ queue' = IF q = <<>> THEN <<>> ELSE Tail(q)
               /\ ssePc' = IF q = <<>> THEN "end" ELSE "flushed"
               /\ UNCHANGED <<pos, buffer>>
       ELSE LET a == AfterChunk(buffer, input[pos + 1])
                q == a.queue
            IN /\ pos' = pos + 1
               /\ buffer' = a.buffer
               /\ events' = IF q = <<>> THEN events ELSE Append(events, Head(q))
               /\ queue' = IF q = <<>> THEN <<>> ELSE Tail(q)
               /\ ssePc' = IF q = <<>> THEN LoopTop(signalAborted) ELSE "yielded"
  /\ UNCHANGED <<input, signalAborted>>
  /\ UNCHANGED <<probeVars, timerVars, runVars, extVars>>

\* the consumer asks for the next event: the generator resumes after its
\* yield
SSEResume ==
  /\ ssePc \in {"yielded", "flushed"}
  /\ IF queue # <<>>
       THEN /\ events' = Append(events, Head(queue))
            /\ queue' = Tail(queue)
            /\ ssePc' = ssePc
       ELSE /\ ssePc' = IF ssePc = "flushed" THEN "end" ELSE LoopTop(signalAborted)
            /\ UNCHANGED <<events, queue>>
  /\ UNCHANGED <<input, pos, buffer, signalAborted>>
  /\ UNCHANGED <<probeVars, timerVars, runVars, extVars>>

\* the owner of the signal aborts it while the generator is suspended
SSEAbort ==
  /\ ssePc \in {"read", "yielded", "flushed"}
  /\ ~signalAborted
  /\ signalAborted' = TRUE
  /\ UNCHANGED <<input, pos, buffer, queue, events, ssePc>>
  /\ UNCHANGED <<probeVars, timerVars, runVars, extVars>>

SSENext == SSERead \/ SSEResume \/ SSEAbort

SSESpec == SSEInit /\ [][SSENext]_vars

\* what parseSSE yields when the whole text arrives as one chunk
Decode(text) ==
  IF text = <<>> THEN FlushEvents(<<>>)
  ELSE LET a == AfterChunk(<<>>, text) IN a.queue \o FlushEvents(a.buffer)

\* =================================================================== Timer
\* A Timer object and the calls a holder may make on it, in any order, while
\* the clock advances.
ProbeIdle ==
  ProbeStart("raw-streaming",
             [requestTimeoutMs |-> 1, firstByteTimeoutMs |-> 1,
              firstEventTimeoutMs |-> 1])

TimerInit ==
  /\ ProbeIdle
  /\ DecoderIdle
  /\ RunIdle
  /\ ExtIdle
  /\ clock \in 0..1
  /\ theTimer = NewTimer(clock)
  /\ calls = <<>>

\* one call on the Timer: the object after it and the record of the call
Call(op, after, ret) ==
  /\ Len(calls) < MaxCalls
  /\ theTimer' = after
  /\ calls' = Append(calls, [op |-> op, at |-> clock, ret |-> ret])
  /\ clock' = clock
  /\ UNCHANGED <<probeVars, sseVars, runVars, extVars>>

TimerMarkTTFB == Call("markTTFB", markTTFB(theTimer, clock), None)

TimerMarkFirstEvent == Call("markFirstEvent", markFirstEvent(theTimer, clock), None)

TimerStop == Call("stop", stop(theTimer, clock), None)

TimerToTimings ==
  Call("toTimings", stop(theTimer, clock), Some(toTimings(theTimer, clock)))

ClockAdvances ==
  /\ clock < MaxClock
  /\ clock' = clock + 1
  /\ UNCHANGED <<theTimer, calls>>
  /\ UNCHANGED <<probeVars, sseVars, runVars, extVars>>

TimerNext ==
  \/ TimerMarkTTFB
  \/ TimerMarkFirstEvent
  \/ TimerStop
  \/ TimerToTimings
  \/ ClockAdvances

TimerSpec == TimerInit /\ [][TimerNext]_vars

\* ==================================================================== runs
\* ---------------------------------------------------------- diagnostic run
\* the probes of the diagnostic CLI, in the order main awaits them
DiagnosticProbes ==
  <<"non-streaming", "raw-streaming", "copilot-sdk-streaming", "foundry-sdk",
    "foundry-sdk-streaming">>

\* a probe call in flight: which function, on which model
ProbeCall(probe, model) == [probe |-> probe, model |-> model]

DiagCall(i) == ProbeCall(DiagnosticProbes[i], "foundryModel")

\* Caught where the catch block pushes nothing
Caught_Dropped(rep, probe) == rep

\* the catch block around each probe call: a placeholder result is pushed
Caught(rep, probe) ==
  Append(rep, [probe |-> probe, outcome |-> "ERROR", payloadHash |-> "unknown"])

DiagInit ==
  /\ ProbeIdle
  /\ ExtIdle
  /\ DecoderIdle
  /\ TimerIdle
  /\ program = "diagnostic"
  /\ catalog = <<>>
  /\ inflight = {DiagCall(1)}
  /\ nsResult = None
  /\ report = <<>>
  /\ started = <<DiagCall(1)>>

\* main goes on after a probe: the next probe is called, or the report is
\* written
DiagGoesOn(rep) ==
  /\ report' = rep
  /\ IF Len(started) < Len(DiagnosticProbes)
       THEN /\ inflight' = {DiagCall(Len(started) + 1)}
            /\ started' = Append(started, DiagCall(Len(started) + 1))
       ELSE /\ inflight' = {}
            /\ started' = started
  /\ UNCHANGED <<program, catalog, nsResult>>
  /\ UNCHANGED <<probeVars, sseVars, timerVars, extVars>>

\* the awaited probe returns its result
DiagProbeReturns(outcome) ==
  /\ program = "diagnostic"
  /\ \E call \in inflight :
       /\ outcome \in ReturnedOutcomes(call.probe)
       /\ DiagGoesOn(Append(report, [probe |-> call.probe, outcome |-> outcome,
                                     payloadHash |-> "hash"]))

\* the awaited probe throws
DiagProbeThrows ==
  /\ program = "diagnostic"
  /\ \E call \in inflight : DiagGoesOn(Caught(report, call.probe))

DiagNext ==
  \/ \E outcome \in ProbeOutcome : DiagProbeReturns(outcome)
  \/ DiagProbeThrows

DiagSpec == DiagInit /\ [][DiagNext]_vars

\* ----------------------------------------------------------- benchmark run
Catalogs == UNION {[1..n -> {"m1", "m2"}] : n \in 1..MaxModels}

\* index.ts of the benchmark CLI: nsOk / sOk and the if chain
Verdict(nsOutcome, sOutcome) ==
  LET nsOk == nsOutcome = "OK"
      sOk == sOutcome = "OK"
  IN IF nsOk /\ sOk THEN "BOTH_OK"
     ELSE IF nsOk /\ ~sOk THEN "STREAM_ONLY_FAIL"
     ELSE IF ~nsOk /\ sOk THEN "NON_STREAM_FAIL"
     ELSE "BOTH_FAIL"

\* WebVerdict with the two one-sided verdicts exchanged
WebVerdict_Exchanged(nsOutcome, sOutcome) ==
  LET nsOk == nsOutcome = "OK"
      sOk == sOutcome = "OK"
  IN IF nsOk /\ sOk THEN "BOTH_OK"
     ELSE IF nsOk /\ ~sOk THEN "NON_STREAM_FAIL"
     ELSE IF ~nsOk /\ sOk THEN "STREAM_ONLY_FAIL"
     ELSE "BOTH_FAIL"

\* the same chain in the POST /api/benchmark handler
WebVerdict(nsOutcome, sOutcome) ==
  LET nsOk == nsOutcome = "OK"
      sOk == sOutcome = "OK"
  IN IF nsOk /\ sOk THEN "BOTH_OK"
     ELSE IF nsOk /\ ~sOk THEN "STREAM_ONLY_FAIL"
     ELSE IF ~nsOk /\ sOk THEN "NON_STREAM_FAIL"
     ELSE "BOTH_FAIL"

\* entries.push({ model, nonStreaming, streaming, supportsStreaming, verdict })
BenchmarkEntry(prog, model, ns, st) ==
  [model |-> model, nonStreaming |-> ns, streaming |-> st,
   supportsStreaming |-> st.outcome = "OK",
   verdict |-> IF prog = "benchmark-cli" THEN Verdict(ns.outcome, st.outcome)
               ELSE WebVerdict(ns.outcome, st.outcome)]

\* TestAt with the two tests of a model in the other order
TestAt_StreamingFirst(cat, n) ==
  ProbeCall(IF n % 2 = 1 THEN "bench-streaming" ELSE "bench-non-streaming",
            cat[(n + 1) \div 2])

\* the n-th test a run starts: for each model of the catalog in turn,
\* testNonStreaming and then testStreaming
TestAt(cat, n) ==
  ProbeCall(IF n % 2 = 1 THEN "bench-non-streaming" ELSE "bench-streaming",
            cat[(n + 1) \div 2])

\* the ModelTestResult a test returns
TestResult(call, outcome) ==
  [model |-> call.model,
   mode |-> IF call.probe = "bench-streaming" THEN "streaming" ELSE "non-streaming",
   outcome |-> outcome]

BenchInit ==
  /\ ProbeIdle
  /\ ExtIdle
  /\ DecoderIdle
  /\ TimerIdle
  /\ program \in {"benchmark-cli", "benchmark-web"}
  /\ catalog \in Catalogs
  /\ inflight = {TestAt(catalog, 1)}
  /\ nsResult = None
  /\ report = <<>>
  /\ started = <<TestAt(catalog, 1)>>

\* the first test of a model returns: its result is held and the second test
\* is started
FirstTestReturns(outcome) ==
  /\ program \in {"benchmark-cli", "benchmark-web"}
  /\ Len(started) % 2 = 1
  /\ \E call \in inflight :
       /\ outcome \in ReturnedOutcomes(call.probe)
       /\ nsResult' = Some(TestResult(call, outcome))
       /\ inflight' = {TestAt(catalog, Len(started) + 1)}
       /\ started' = Append(started, TestAt(catalog, Len(started) + 1))
  /\ UNCHANGED <<program, catalog, report>>
  /\ UNCHANGED <<probeVars, sseVars, timerVars, extVars>>

\* the second test returns: the entry is pushed and the loop goes to the next
\* model, or the report is built
SecondTestReturns(outcome) ==
  /\ program \in {"benchmark-cli", "benchmark-web"}
  /\ Len(started) % 2 = 0
  /\ \E call \in inflight :
       /\ outcome \in ReturnedOutcomes(call.probe)
       /\ report' = Append(report,
                           BenchmarkEntry(program, catalog[Len(started) \div 2],
                                          nsResult[1], TestResult(call, outcome)))
       /\ nsResult' = None
       /\ IF Len(started) < 2 * Len(catalog)
            THEN /\ inflight' = {TestAt(catalog, Len(started) + 1)}
                 /\ started' = Append(started, TestAt(catalog, Len(started) + 1))
            ELSE /\ inflight' = {}
                 /\ started' = started
  /\ UNCHANGED <<program, catalog>>
  /\ UNCHANGED <<probeVars, sseVars, timerVars, extVars>>

BenchNext ==
  \/ \E outcome \in ProbeOutcome : FirstTestReturns(outcome)
  \/ \E outcome \in ProbeOutcome : SecondTestReturns(outcome)

BenchSpec == BenchInit /\ [][BenchNext]_vars

\* ========================================================== resolveModelId
\* ids are texts over a few characters: a letter in both cases, a separator
\* the normalisation rewrites, and "gpu" as one token
IdTexts == UNION {[1..n -> {"p", "P", "_", "gpu"}] : n \in 0..MaxIdLen}

\* FoundryModel, as far as resolveModelId reads it; the ids of a catalog
\* begin with a letter
FoundryModels ==
  [id : {t \in IdTexts : t # <<>> /\ t[1] \in {"p", "P"}},
   sdkAlias : {None, Some(<<"P">>)}]

\* the catalogs given: no model, one, or two
ModelLists ==
  {<<>>} \cup {<<m>> : m \in FoundryModels}
         \cup {<<m, n>> : m \in FoundryModels, n \in FoundryModels}

toLowerCase(str) == [i \in 1..Len(str) |-> IF str[i] = "P" THEN "p" ELSE str[i]]

\* .replace(/[_\s]/g, "-")
dashed(str) == [i \in 1..Len(str) |-> IF str[i] \in {"_", " "} THEN "-" ELSE str[i]]

strStartsWith(str, prefix) ==
  /\ Len(prefix) <= Len(str)
  /\ SubSeq(str, 1, Len(prefix)) = prefix

includes(str, sub) ==
  \E i \in 0..(Len(str) - Len(sub)) : SubSeq(str, i + 1, i + Len(sub)) = sub

\* Array.prototype.find, on the set of indexes whose element satisfies the
\* callback: the first such element, if any
find(ms, matching) ==
  IF matching = {} THEN None
  ELSE Some(ms[CHOOSE i \in matching : \A j \in matching : i <= j])

Resolution(id, was) == [resolvedId |-> id, wasResolved |-> was]

isExact(identifier, m) == m.id = identifier
isCiMatch(identifier, m) == toLowerCase(m.id) = toLowerCase(identifier)
isAliasMatch(identifier, m) ==
  m.sdkAlias # None /\ toLowerCase(m.sdkAlias[1]) = toLowerCase(identifier)
isPrefixMatch(identifier, m) ==
  LET idLower == dashed(toLowerCase(identifier))
      mLower == dashed(toLowerCase(m.id))
  IN \/ strStartsWith(mLower, idLower \o <<"-">>)
     \/ strStartsWith(mLower, idLower \o <<":">>)
isContainsMatch(identifier, m) ==
  includes(toLowerCase(m.id), dashed(toLowerCase(identifier)))

\* resolveModelId with the SDK alias tried before the case-insensitive id
resolveModelId_AliasFirst(identifier, ms) ==
  LET at == 1..Len(ms)
      exact == find(ms, {i \in at : isExact(identifier, ms[i])})
      ciMatch == find(ms, {i \in at : isCiMatch(identifier, ms[i])})
      aliasMatch == find(ms, {i \in at : isAliasMatch(identifier, ms[i])})
      prefixMatches == {i \in at : isPrefixMatch(identifier, ms[i])}
      gpuMatch == find(ms, {i \in prefixMatches :
                              includes(toLowerCase(ms[i].id), <<"gpu">>)})
      containsMatch == find(ms, {i \in at : isContainsMatch(identifier, ms[i])})
  IN IF Len(ms) = 0 \/ identifier = <<>> THEN Resolution(identifier, FALSE)
     ELSE IF exact # None THEN Resolution(exact[1].id, FALSE)
     ELSE IF aliasMatch # None THEN Resolution(aliasMatch[1].id, TRUE)
     ELSE IF ciMatch # None THEN Resolution(ciMatch[1].id, TRUE)
     ELSE IF prefixMatches # {}
       THEN Resolution(IF gpuMatch # None THEN gpuMatch[1].id
                       ELSE find(ms, prefixMatches)[1].id, TRUE)
     ELSE IF containsMatch # None THEN Resolution(containsMatch[1].id, TRUE)
     ELSE Resolution(identifier, FALSE)

resolveModelId(identifier, ms) ==
  LET at == 1..Len(ms)
      exact == find(ms, {i \in at : isExact(identifier, ms[i])})
      ciMatch == find(ms, {i \in at : isCiMatch(identifier, ms[i])})
      aliasMatch == find(ms, {i \in at : isAliasMatch(identifier, ms[i])})
      prefixMatches == {i \in at : isPrefixMatch(identifier, ms[i])}
      gpuMatch == find(ms, {i \in prefixMatches :
                              includes(toLowerCase(ms[i].id), <<"gpu">>)})
      containsMatch == find(ms, {i \in at : isContainsMatch(identifier, ms[i])})
  IN IF Len(ms) = 0 \/ identifier = <<>> THEN Resolution(identifier, FALSE)
     ELSE IF exact # None THEN Resolution(exact[1].id, FALSE)
     ELSE IF ciMatch # None THEN Resolution(ciMatch[1].id, TRUE)
     ELSE IF aliasMatch # None THEN Resolution(aliasMatch[1].id, TRUE)
     ELSE IF prefixMatches # {}
       THEN Resolution(IF gpuMatch # None THEN gpuMatch[1].id
                       ELSE find(ms, prefixMatches)[1].id, TRUE)
     ELSE IF containsMatch # None THEN Resolution(containsMatch[1].id, TRUE)
     ELSE Resolution(identifier, FALSE)

ResolverInit ==
  /\ ProbeIdle
  /\ DecoderIdle
  /\ TimerIdle
  /\ RunIdle
  /\ ModulesLoaded
  /\ modelIdentifier \in IdTexts
  /\ models \in ModelLists
  /\ resolved = None

Resolve ==
  /\ resolved = None
  /\ resolved' = Some(resolveModelId(modelIdentifier, models))
  /\ UNCHANGED <<modelIdentifier, models>>
  /\ UNCHANGED <<probeVars, sseVars, timerVars, runVars>>
  /\ UNCHANGED <<cfgFoundryModel, requests, manager, created, callers>>

ResolverSpec == ResolverInit /\ [][Resolve]_vars

\* ============================================================== web server
\* the probes POST /api/probes/all runs, in order
WebProbes == <<"non-streaming", "raw-streaming", "copilot-sdk-streaming">>

\* the switch of POST /api/probe/:name: the probe a name selects, if any
NamedProbe(name) ==
  CASE name = "non-streaming" -> Some("non-streaming")
    [] name = "raw-streaming" -> Some("raw-streaming")
    [] name = "copilot-sdk" -> Some("copilot-sdk-streaming")
    [] OTHER -> None

\* what a request is posted to: /api/probes/all, or /api/probe/ and a name
Routes == {"all", "non-streaming", "raw-streaming", "copilot-sdk", "foundry-sdk"}

\* the server process after its modules are loaded
ServerStart ==
  /\ ProbeIdle
  /\ DecoderIdle
  /\ TimerIdle
  /\ RunIdle
  /\ ExtIdle

\* A request arrives. The handler runs up to its first pending await: the
\* body is checked, ensureBaseUrl (which awaits nothing) detects the service
\* or throws, the model is stored in the shared config and the first probe
\* is called, which reads its model from the config before it awaits fetch.
Receive(r, route, model, detected) ==
  /\ requests[r].state = "none"
  /\ LET req == [NoRequest EXCEPT !.route = route, !.model = model]
         probe == IF route = "all" THEN Some(WebProbes[1]) ELSE NamedProbe(route)
         respond(status) ==
           /\ requests' = [requests EXCEPT ![r] =
                 [req EXCEPT !.state = "responded",
                             !.response = Some([status |-> status, body |-> None])]]
     IN IF model = None
          THEN respond(400) /\ UNCHANGED cfgFoundryModel
        ELSE IF ~detected
          THEN respond(500) /\ UNCHANGED cfgFoundryModel
        ELSE IF probe = None
          THEN respond(400) /\ cfgFoundryModel' = model[1]
        ELSE /\ cfgFoundryModel' = model[1]
             /\ requests' = [requests EXCEPT ![r] =
                   [req EXCEPT !.state = "running",
                               !.calls = <<ProbeCall(probe[1], model[1])>>]]
  /\ UNCHANGED <<probeVars, sseVars, timerVars, runVars>>
  /\ UNCHANGED <<modelIdentifier, models, resolved, manager, created, callers>>

\* the probe a request of POST /api/probes/all awaits returns or throws: its
\* result is pushed and the next probe is called, or the report is written
AllProbeSettles(r, thrown) ==
  /\ requests[r].state = "running"
  /\ requests[r].route = "all"
  /\ LET req == requests[r]
         probe == req.calls[Len(req.calls)].probe
         results == IF thrown THEN Caught(req.results, probe)
                    ELSE Append(req.results,
                                [probe |-> probe, outcome |-> "OK",
                                 payloadHash |-> "hash"])
     IN requests' = [requests EXCEPT ![r] =
          IF Len(req.calls) < Len(WebProbes)
            THEN [req EXCEPT !.results = results,
                    !.calls = Append(req.calls,
                                ProbeCall(WebProbes[Len(req.calls) + 1],
                                          cfgFoundryModel))]
            ELSE [req EXCEPT !.results = results, !.state = "responded",
                    !.response = Some([status |-> 200, body |->
                        Some([foundryModel |-> cfgFoundryModel,
                              probes |-> results])])]]
  /\ UNCHANGED cfgFoundryModel
  /\ UNCHANGED <<probeVars, sseVars, timerVars, runVars>>
  /\ UNCHANGED <<modelIdentifier, models, resolved, manager, created, callers>>

\* the probe a request of POST /api/probe/:name awaits returns or throws
NamedProbeSettles(r, thrown) ==
  /\ requests[r].state = "running"
  /\ requests[r].route # "all"
  /\ LET req == requests[r]
         probe == req.calls[1].probe
     IN requests' = [requests EXCEPT ![r] =
          [req EXCEPT !.state = "responded",
             !.response = IF thrown THEN Some([status |-> 500, body |-> None])
                          ELSE Some([status |-> 200, body |->
                                 Some([probe |-> probe, outcome |-> "OK",
                                       payloadHash |-> "hash"])])]]
  /\ UNCHANGED cfgFoundryModel
  /\ UNCHANGED <<probeVars, sseVars, timerVars, runVars>>
  /\ UNCHANGED <<modelIdentifier, models, resolved, manager, created, callers>>

WebNext ==
  \/ \E r \in 1..MaxRequests, route \in Routes,
         model \in {None, Some("m1"), Some("m2")}, detected \in BOOLEAN :
       Receive(r, route, model, detected)
  \/ \E r \in 1..MaxRequests, thrown \in BOOLEAN : AllProbeSettles(r, thrown)
  \/ \E r \in 1..MaxRequests, thrown \in BOOLEAN : NamedProbeSettles(r, thrown)

WebSpec == ServerStart /\ [][WebNext]_vars

\* ============================================================== getManager
\* getManager() is called: the cached manager is returned, or loadSDK is
\* awaited
GetManager(c) ==
  /\ callers[c].pc = "idle"
  /\ callers' = [callers EXCEPT ![c] =
       IF manager # None
         THEN [@ EXCEPT !.pc = "returned", !.got = manager]
         ELSE [@ EXCEPT !.pc = "loadSDK"]]
  /\ UNCHANGED <<manager, created>>
  /\ UNCHANGED <<probeVars, sseVars, timerVars, runVars>>
  /\ UNCHANGED <<modelIdentifier, models, resolved, cfgFoundryModel, requests>>

\* loadSDK resolves: FoundryLocalManager.create is invoked and awaited
SDKLoaded(c) ==
  /\ callers[c].pc = "loadSDK"
  /\ created' = created + 1
  /\ callers' = [callers EXCEPT ![c] =
       [@ EXCEPT !.pc = "create", !.instance = created + 1]]
  /\ UNCHANGED manager
  /\ UNCHANGED <<probeVars, sseVars, timerVars, runVars>>
  /\ UNCHANGED <<modelIdentifier, models, resolved, cfgFoundryModel, requests>>

\* the import of the SDK fails
SDKLoadFails(c) ==
  /\ callers[c].pc = "loadSDK"
  /\ callers' = [callers EXCEPT ![c] = [@ EXCEPT !.pc = "failed"]]
  /\ UNCHANGED <<manager, created>>
  /\ UNCHANGED <<probeVars, sseVars, timerVars, runVars>>
  /\ UNCHANGED <<modelIdentifier, models, resolved, cfgFoundryModel, requests>>

\* create resolves with a new manager: it is cached and returned
CreateResolves(c) ==
  /\ callers[c].pc = "create"
  /\ manager' = Some(callers[c].instance)
  /\ callers' = [callers EXCEPT ![c] =
       [@ EXCEPT !.pc = "returned", !.got = Some(callers[c].instance)]]
  /\ UNCHANGED created
  /\ UNCHANGED <<probeVars, sseVars, timerVars, runVars>>
  /\ UNCHANGED <<modelIdentifier, models, resolved, cfgFoundryModel, requests>>

\* create rejects
CreateRejects(c) ==
  /\ callers[c].pc = "create"
  /\ callers' = [callers EXCEPT ![c] = [@ EXCEPT !.pc = "failed"]]
  /\ UNCHANGED <<manager, created>>
  /\ UNCHANGED <<probeVars, sseVars, timerVars, runVars>>
  /\ UNCHANGED <<modelIdentifier, models, resolved, cfgFoundryModel, requests>>

ManagerNext ==
  \E c \in 1..MaxCallers :
    \/ GetManager(c)
    \/ SDKLoaded(c)
    \/ SDKLoadFails(c)
    \/ CreateResolves(c)
    \/ CreateRejects(c)

ManagerSpec == ServerStart /\ [][ManagerNext]_vars

\* ================================================================ claims
Done == pc = "done"
Outcome == result[1].outcome
fbMs == cfg.firstByteTimeoutMs
feMs == cfg.firstEventTimeoutMs
reqMs == cfg.requestTimeoutMs

\* the server never sent response headers and the connection did not fail
NoHeaders == srv.status = None /\ ~srv.netError
\* the server sent 2xx headers, then no data: line, kept the stream open
HeadersOnly ==
  /\ srv.status = Some("200")
  /\ srv.sent = 0
  /\ ~streamEnded
  /\ ~srv.netError

C2_NoFirstEvent ==
  (kind \in StreamingFetchKinds /\ HeadersOnly /\ feMs < reqMs) =>
     /\ Done => Outcome = "NO_FIRST_EVENT" /\ now = feMs
     /\ now > feMs => Done

C2_Witness ==
  /\ kind \in StreamingFetchKinds /\ HeadersOnly /\ feMs < reqMs
  /\ Done /\ Outcome = "NO_FIRST_EVENT" /\ now = feMs
  /\ srv.observer = "read"

\* the server sent headers and at least one event that the probe consumed,
\* then nothing more until the overall timer cancelled the probe
StalledAfterEvent ==
  /\ srv.status = Some("200")
  /\ chunkCount >= 1
  /\ ~doneReceived
  /\ ~streamEnded
  /\ ~srv.netError
  /\ abortReason = "REQUEST_TIMEOUT"

\* C3: when the server sends headers and one event and then stalls past
\* requestTimeoutMs, the streaming probe returns TIMEOUT and the result
\* carries chunkCount >= 1.
C3_TimeoutKeepsChunkCount ==
  (kind \in StreamingFetchKinds /\ Done /\ StalledAfterEvent) =>
     /\ Outcome = "TIMEOUT"
     /\ result[1].chunkCount # None
     /\ result[1].chunkCount[1] >= 1

\* C4: whatever the server does, the fetch-based probes (runNonStreamingProbe,
\* runRawStreamingProbe, testNonStreaming, testStreaming) eventually return.
C4_Terminates ==
  (kind \in StreamingFetchKinds \cup NonStreamingFetchKinds) => <>Done

C4_Witness ==
  /\ kind \in StreamingFetchKinds \cup NonStreamingFetchKinds
  /\ Done
  /\ srv.observer \in {"read", "json"}
  /\ now = reqMs

\* C5: no probe throws to its caller; every failure ends in a returned result
\* whose outcome is one of the closed set.
C5_NeverThrows ==
  /\ pc # "thrown"
  /\ Done => Outcome \in ProbeOutcome

C5_Witness ==
  /\ Done
  /\ srv.netError
  /\ srv.status # None
  /\ result[1].error # None

\* the outcome named by a timer's abort reason
OutcomeOfReason(reason) ==
  CASE reason = "FIRST_BYTE_TIMEOUT" -> "NO_FIRST_BYTE"
    [] reason = "FIRST_EVENT_TIMEOUT" -> "NO_FIRST_EVENT"
    [] OTHER -> "TIMEOUT"

C7_FirstWriterWins ==
  [][abortReason # "none" => abortReason' = abortReason]_vars

C7_Witness ==
  /\ kind \in StreamingFetchKinds
  /\ abortReason # "none"
  /\ srv.late

DisarmedStep ==
  kind \in StreamingFetchKinds =>
    /\ (httpStatus # None /\ abortReason # "FIRST_BYTE_TIMEOUT")
         => abortReason' # "FIRST_BYTE_TIMEOUT"
    /\ (chunkCount >= 1 /\ abortReason # "FIRST_EVENT_TIMEOUT")
         => abortReason' # "FIRST_EVENT_TIMEOUT"

\* C8: in a streaming probe, once headers have been observed the abort reason
\* does not become FIRST_BYTE_TIMEOUT, and once the first event has been
\* consumed it does not become FIRST_EVENT_TIMEOUT.
C8_Disarmed == [][DisarmedStep]_vars

C8_Witness ==
  /\ kind \in StreamingFetchKinds
  /\ pc = "read"
  /\ httpStatus # None /\ chunkCount >= 1
  /\ now >= fbMs /\ now >= feMs
  /\ abortReason = "none"

\* C9: in every probe variant a non-2xx response yields outcome FAIL.
C9_Non2xxFails ==
  (Done /\ srv.status # None /\ srv.status # Some("200")) => Outcome = "FAIL"

\* C10: a streaming probe returns OK, and reports doneReceived, only if a
\* [DONE] sentinel was received on the stream.
C10_OkOnlyWithSentinel ==
  (kind \in StreamingKinds /\ Done) =>
     /\ Outcome = "OK" => srv.sentinel
     /\ result[1].doneReceived = Some(TRUE) => srv.sentinel

C12_RequestTimerTimeout ==
  (Done /\ abortReason = RequestReason(kind)
     /\ srv.observer \in {"fetch", "json", "read", "check"}) =>
     Outcome = "TIMEOUT"

\* C13: when a streaming probe is cancelled or fails after events were
\* consumed, the result carries chunkCount equal to the number of events
\* consumed and tokenPreview equal to the delta text accumulated.
C13_PartialProgressKept ==
  (kind \in StreamingKinds /\ Done /\ result[1].error # None /\ chunkCount >= 1) =>
     /\ result[1].chunkCount = Some(chunkCount)
     /\ result[1].tokenPreview = Some(tokenParts)

\* C14: the timings of every returned result satisfy endMs >= startMs, and
\* ttfbMs and firstEventMs, when present, are each <= totalMs.
C14_TimingsOrdered ==
  Done =>
    LET t == result[1].timings IN
      /\ t.endMs >= t.startMs
      /\ t.ttfbMs # None => t.ttfbMs[1] <= t.totalMs
      /\ t.firstEventMs # None => t.firstEventMs[1] <= t.totalMs

\* C19: a decoder-based streaming probe counts every event up to and
\* including [DONE], sets doneReceived on it, and consumes no event after it,
\* even one that arrived in the same chunk.
C19_HaltsOnDone ==
  (kind \in ParseSSEKinds /\ srv.doneAt > 0) =>
     /\ chunkCount <= srv.doneAt
     /\ (Done /\ result[1].error = None) =>
          /\ result[1].chunkCount = Some(srv.doneAt)
          /\ result[1].doneReceived = Some(TRUE)

C19_Witness ==
  /\ kind \in ParseSSEKinds /\ Done /\ Outcome = "OK"
  /\ srv.doneAt >= 1 /\ srv.sent > srv.doneAt
  /\ result[1].chunkCount = Some(srv.doneAt)
  /\ pending # <<>>

\* parseSSE ran to its end and its signal was never aborted
DecodedAll == ssePc = "end" /\ ~signalAborted
TheText == Flatten(input)
TextLines == split(TheText, <<NL>>)
\* the lines of the input that begin with data:
DataLines == {i \in 1..Len(TextLines) : startsWith(TextLines[i])}

\* C15: whatever way the text is cut into chunks, parseSSE yields the same
\* payloads as when the whole text arrives as one chunk.
C15_ChunkingInvariant ==
  DecodedAll => events = Decode(TheText)

C15_Witness ==
  /\ DecodedAll
  /\ Len(input) >= 2
  /\ Len(events) >= 1
  /\ startsWith(input[1])
  /\ input[1][Len(input[1])] # NL
  /\ Head(input[2]) # NL

\* line with one leading space, if any, removed
StripOneSpace(str) == IF str # <<>> /\ Head(str) = SP THEN Tail(str) ELSE str

\* the input is one data: line, alone in its segment
OneDataLine ==
  /\ startsWith(TheText)
  /\ \A i \in 2..Len(TextLines) : TextLines[i] = <<>>

\* C16: the payload of a data: line is the line without its 5-character
\* prefix and without at most one leading space; a second leading space is
\* kept.
C16_OneSpaceStripped ==
  (DecodedAll /\ OneDataLine) =>
     events = <<StripOneSpace(Tail(TextLines[1]))>>

RECURSIVE IsSubseq(_, _)
IsSubseq(a, b) ==
  IF a = <<>> THEN TRUE
  ELSE IF b = <<>> THEN FALSE
  ELSE IF Head(a) = Head(b) THEN IsSubseq(Tail(a), Tail(b))
  ELSE IsSubseq(a, Tail(b))

RECURSIVE TrimmedPayloads(_)
TrimmedPayloads(lines) ==
  IF lines = <<>> THEN <<>>
  ELSE (IF startsWith(Head(lines)) THEN <<trim(Tail(Head(lines)))>> ELSE <<>>)
         \o TrimmedPayloads(Tail(lines))

\* C17: on natural stream end no data: line of the input is dropped: every
\* one of them, an unterminated last line included, has its event among those
\* yielded, in order.
C17_NoDataLineDropped ==
  DecodedAll =>
     IsSubseq(TrimmedPayloads(TextLines), [i \in 1..Len(events) |-> trim(events[i])])

C17_Witness ==
  /\ DecodedAll
  /\ TheText # <<>>
  /\ TheText[Len(TheText)] # NL
  /\ startsWith(TextLines[Len(TextLines)])
  /\ Cardinality(DataLines) >= 2
  /\ Len(events) = Cardinality(DataLines)
  /\ events[Len(events)] = payload(TextLines[Len(TextLines)])

\* C18: parseSSE yields exactly one event for each input line that begins
\* with data: and none for any other line.
C18_OnlyDataLines ==
  DecodedAll => Len(events) = Cardinality(DataLines)

\* C20: once the signal is aborted the decoder yields no further event.
C20_NoEventAfterAbort ==
  [][signalAborted => events' = events]_vars

\* the server answered 200 with the given kind of JSON body, which was read
BodyWas(b) == srv.status = Some("200") /\ srv.body = Some(b)

\* C26: a non-streaming probe that receives 200 with a body whose
\* choices[0].message.content is a text returns OK with that text as
\* tokenPreview.
C26_ContentPreview ==
  (kind \in NonStreamingFetchKinds /\ Done /\ BodyWas("content")) =>
     /\ Outcome = "OK"
     /\ result[1].tokenPreview = Some(<<"hi">>)

\* C27: a non-streaming probe that receives a 2xx response whose body is not
\* parseable JSON returns FAIL.
C27_MalformedJsonFails ==
  (kind \in NonStreamingFetchKinds /\ Done /\ BodyWas("malformed")) =>
     Outcome = "FAIL"

\* C28: in runNonStreamingProbe, testNonStreaming and runFoundrySDKProbe a 2xx
\* response whose JSON body has no choices array returns FAIL, never OK.
C28_NoChoicesFails ==
  (kind \in NonStreamingFetchKinds \cup {"foundry-sdk"} /\ Done /\ BodyWas("nochoices")) =>
     Outcome = "FAIL"

\* C29: in every probe variant a network failure of the request that no timer
\* caused yields ERROR, whatever the text of the error.
C29_NetworkFailureIsError ==
  (Done /\ srv.netError /\ srv.status = None /\ abortReason = "none") =>
     Outcome = "ERROR"

FirstCall(op) ==
  CHOOSE i \in 1..Len(calls) :
    calls[i].op = op /\ \A h \in 1..(i - 1) : calls[h].op # op
Called(op, before) == \E i \in 1..(before - 1) : calls[i].op = op

\* C21: markTTFB and markFirstEvent take effect on their first call only:
\* every toTimings() reports the ttfbMs (firstEventMs) recorded by the first
\* markTTFB (markFirstEvent) call, whatever mark calls followed it.
C21_MarksOnce ==
  \A j \in 1..Len(calls) :
    calls[j].op = "toTimings" =>
      /\ Called("markTTFB", j) =>
           calls[j].ret[1].ttfbMs = Some(calls[FirstCall("markTTFB")].at - theTimer.start)
      /\ Called("markFirstEvent", j) =>
           calls[j].ret[1].firstEventMs
             = Some(calls[FirstCall("markFirstEvent")].at - theTimer.start)

C21_Witness ==
  /\ Len(calls) = 3
  /\ calls[1].op = "markTTFB" /\ calls[2].op = "markTTFB"
  /\ calls[1].at < calls[2].at
  /\ calls[3].op = "toTimings"
  /\ calls[3].ret[1].ttfbMs = Some(calls[1].at - theTimer.start)

\* C22: a snapshot finalizes the Timer: every later toTimings() returns the
\* same values as the first one, whatever stop(), markTTFB() or
\* markFirstEvent() calls were made in between.
C22_SnapshotsEqual ==
  \A i, j \in 1..Len(calls) :
    (i < j /\ calls[i].op = "toTimings" /\ calls[j].op = "toTimings") =>
       calls[j].ret = calls[i].ret

\* the verdict the mapping of the claim gives
ExpectedVerdict(nsOutcome, sOutcome) ==
  CASE nsOutcome = "OK" /\ sOutcome = "OK" -> "BOTH_OK"
    [] nsOutcome = "OK" /\ sOutcome # "OK" -> "STREAM_ONLY_FAIL"
    [] nsOutcome # "OK" /\ sOutcome = "OK" -> "NON_STREAM_FAIL"
    [] OTHER -> "BOTH_FAIL"

\* C23: the verdict of a benchmark entry depends only on whether each of the
\* two outcomes is OK, by the four-case mapping; supportsStreaming is true
\* exactly when the streaming outcome is OK; the CLI and the web route
\* compute the same mapping.
C23_VerdictMapping ==
  /\ \A ns \in ProbeOutcome, st \in ProbeOutcome :
       /\ Verdict(ns, st) = ExpectedVerdict(ns, st)
       /\ WebVerdict(ns, st) = Verdict(ns, st)
  /\ \A i \in 1..Len(report) :
       /\ report[i].verdict
            = ExpectedVerdict(report[i].nonStreaming.outcome,
                              report[i].streaming.outcome)
       /\ report[i].supportsStreaming = (report[i].streaming.outcome = "OK")

C23_Witness ==
  /\ program = "benchmark-web"
  /\ Len(report) = 2
  /\ report[1].verdict = "STREAM_ONLY_FAIL"
  /\ report[1].nonStreaming.outcome = "OK"
  /\ report[1].streaming.outcome = "NO_FIRST_EVENT"
  /\ ~report[1].supportsStreaming
  /\ report[2].verdict = "NON_STREAM_FAIL"

C25_BenchmarkSequential ==
  program \in {"benchmark-cli", "benchmark-web"} =>
    /\ Cardinality(inflight) <= 1
    /\ Len(started) <= 2 * Len(catalog)
    /\ \A n \in 1..Len(started) :
         /\ started[n].model = catalog[(n + 1) \div 2]
         /\ started[n].probe
              = IF n % 2 = 1 THEN "bench-non-streaming" ELSE "bench-streaming"
    /\ Len(report) = (Len(started) - Cardinality(inflight)) \div 2
    /\ \A i \in 1..Len(report) :
         /\ report[i].model = catalog[i]
         /\ report[i].nonStreaming.mode = "non-streaming"
         /\ report[i].streaming.mode = "streaming"
    /\ inflight = {} => Len(report) = Len(catalog)

C25_Witness ==
  /\ program = "benchmark-cli"
  /\ catalog = <<"m2", "m1">>
  /\ inflight = {}
  /\ Len(report) = 2
  /\ Len(started) = 4
  /\ report[1].model = "m2" /\ report[2].model = "m1"

\* the ids the priority order allows: those of the first strategy that
\* matches some model, the identifier itself when none does
C31_Allowed ==
  LET ms == {models[i] : i \in 1..Len(models)}
      exact == {m.id : m \in {n \in ms : isExact(modelIdentifier, n)}}
      ci == {m.id : m \in {n \in ms : isCiMatch(modelIdentifier, n)}}
      alias == {m.id : m \in {n \in ms : isAliasMatch(modelIdentifier, n)}}
      prefix == {m.id : m \in {n \in ms : isPrefixMatch(modelIdentifier, n)}}
      contains == {m.id : m \in {n \in ms : isContainsMatch(modelIdentifier, n)}}
  IN IF exact # {} THEN exact
     ELSE IF ci # {} THEN ci
     ELSE IF alias # {} THEN alias
     ELSE IF prefix # {} THEN prefix
     ELSE IF contains # {} THEN contains
     ELSE {modelIdentifier}

C31_FlagTellsChange ==
  resolved[1].wasResolved = (resolved[1].resolvedId # modelIdentifier)

C32_AllFiveProbes ==
  \A r \in 1..MaxRequests :
    (/\ requests[r].route = "all"
     /\ requests[r].response # None
     /\ requests[r].response[1].status = 200) =>
       LET probes == requests[r].response[1].body[1].probes
       IN /\ Len(probes) = Len(DiagnosticProbes)
          /\ \A i \in 1..Len(probes) : probes[i].probe = DiagnosticProbes[i]

\* C36: every probe a request runs is called with the model named in that
\* request, and the report of a POST /api/probes/all request names that
\* model, also when another request is handled at the same time.
C36_NoModelLeak ==
  \A r \in 1..MaxRequests :
    /\ \A i \in 1..Len(requests[r].calls) :
         requests[r].calls[i].model = requests[r].model[1]
    /\ (/\ requests[r].route = "all"
        /\ requests[r].response # None
        /\ requests[r].response[1].status = 200) =>
          requests[r].response[1].body[1].foundryModel = requests[r].model[1]

\* C39: whatever the interleaving of concurrent getManager() calls,
\* FoundryLocalManager.create is invoked at most once and every caller
\* receives the same manager.
C39_Singleton ==
  /\ created <= 1
  /\ \A c, d \in 1..MaxCallers :
       (callers[c].pc = "returned" /\ callers[d].pc = "returned") =>
          callers[c].got = callers[d].got

C34_TTFBBeforeBody ==
  kind \in StreamingKinds =>
     /\ pc \in {"read", "deliver"} => timer.ttfb # None
     /\ (Done /\ result[1].timings.ttfbMs # None
              /\ result[1].timings.firstEventMs # None) =>
           result[1].timings.firstEventMs[1] >= result[1].timings.ttfbMs[1]

C34_Witness ==
  /\ kind \in StreamingKinds
  /\ Done
  /\ result[1].timings.ttfbMs = Some(1)
  /\ result[1].timings.firstEventMs = Some(2)

\* C35: the SDK-mediated probes eventually return a result even when the
\* SDK lookup never completes.
C35_LookupBestEffort ==
  (kind \in FoundryKinds) => <>Done

\* C37: the end of a streaming probe's timings is taken when the probe
\* finishes: endMs is no earlier than the arrival of the response headers nor
\* than the arrival of an event the probe has consumed.
C37_EndCoversRun ==
  (kind \in StreamingKinds /\ Done) =>
     LET t == result[1].timings IN
       /\ (kind \in StreamingFetchKinds /\ t.ttfbMs # None) =>
             t.endMs >= t.startMs + t.ttfbMs[1]
       /\ t.firstEventMs # None => t.endMs >= t.startMs + t.firstEventMs[1]

\* C38: in a result of runRawStreamingProbe or testStreaming, NO_FIRST_BYTE
\* means no response headers were observed (no httpStatus, no ttfbMs) and
\* NO_FIRST_EVENT means no event was consumed (no firstEventMs).
C38_OutcomeMatchesProgress ==
  (kind \in StreamingFetchKinds /\ Done) =>
     /\ Outcome = "NO_FIRST_BYTE" =>
          /\ ~headersReceived
          /\ result[1].httpStatus = None
          /\ result[1].timings.ttfbMs = None
     /\ Outcome = "NO_FIRST_EVENT" =>
          /\ chunkCount = 0
          /\ result[1].timings.firstEventMs = None

C38_Witness ==
  /\ kind = "bench-streaming"
  /\ Done
  /\ Outcome = "NO_FIRST_EVENT"
  /\ result[1].httpStatus # None
  /\ result[1].timings.ttfbMs # None
  /\ result[1].timings.firstEventMs = None

\* an error text that tells of an abort and carries no timer tag
GenericAbort(msg) ==
  /\ Includes(msg, T_abort)
  /\ ~Includes(msg, T_FIRST_BYTE_TIMEOUT)
  /\ ~Includes(msg, T_FIRST_EVENT_TIMEOUT)
  /\ ~Includes(msg, T_REQUEST_TIMEOUT)
  /\ ~Includes(msg, T_NO_FIRST_EVENT)

\* C40: the Copilot-SDK probe classifies an untagged abort as HANG when no
\* chunk had been received and as TIMEOUT when one had; HANG is never the
\* outcome once a chunk was received, nor the outcome of any other probe.
C40_HangOnlyWithoutChunk ==
  Done =>
    /\ Outcome = "HANG" => (kind = "copilot-sdk-streaming" /\ chunkCount = 0)
    /\ (/\ kind = "copilot-sdk-streaming"
        /\ result[1].error # None
        /\ GenericAbort(result[1].error[1])) =>
          Outcome = IF chunkCount = 0 THEN "HANG" ELSE "TIMEOUT"

C40_Witness ==
  /\ kind = "copilot-sdk-streaming"
  /\ Done
  /\ Outcome = "TIMEOUT"
  /\ chunkCount >= 1
  /\ result[1].error = Some(ErrorMessage(APIUserAbortError))

====
